---------------------------- MODULE Spec2Model ----------------------------
(***************************************************************************)
(* The playlist/track data-access layer of src/src/database.py:            *)
(* PlaylistManager over the tables playlist, track, stream and the         *)
(* association table playlist_track.                                       *)
(*                                                                         *)
(* The persisted store is one variable, a record of the four tables.  A    *)
(* manager method is a pure operator from a store to a result record       *)
(* (the store it leaves, how it ended, what it returned, how many times    *)
(* it called session.commit()), so that a method that calls other methods  *)
(* is the composition of their operators.  One action per public method    *)
(* applies the operator to the store.                                      *)
(*                                                                         *)
(* An entity argument (a Track or Playlist object) is the id of a row      *)
(* that is in the store when the call is made, i.e. a handle the caller    *)
(* obtained from the manager's current session, or None.                   *)
(***************************************************************************)
EXTENDS Integers, Sequences, FiniteSets, TLC

\* Bounds of the model: the largest row id a table may hold.
MaxPlaylists == 2
MaxTracks == 2
\* The largest number of sessions a manager opens.
MaxSessions == 2

\* Python's None where an entity, an id or a row is expected.  Row ids start
\* at 1, and `elif id:` treats an id of 0 as absent just as it treats None.
None == 0
\* Python's None where a string is expected.
NoneStr == "<None>"

LikedSongs == "Liked Songs"
DefaultTitle == "New Playlist"

\* The values calls are made with.
PlaylistTitles == {LikedSongs, DefaultTitle}
Descriptions == {"road trip"}
TrackTitles == {"Song A", ""}
\* The track details a call passes together: artist, album, duration,
\* stream_url and the optional cover_art_url.
TrackDetails ==
    { [artist |-> "Artist A", album |-> "Album A", duration |-> 180,
       stream_url |-> "http://stream/a", cover_art_url |-> NoneStr],
      [artist |-> "Artist B", album |-> "Album B", duration |-> 245,
       stream_url |-> "http://stream/b", cover_art_url |-> "http://art/b"] }
CoverArtUrls == {"http://art/b"}

VARIABLES
    store,      \* the persisted tables: playlist, track, stream, playlist_track
    view,       \* the tables as the manager's session holds them: the persisted
                \* ones and the changes it has not committed
    session,    \* the manager's session handle: [id, active]
    added,      \* history: <<playlist, track>> added by add_track_to_playlist
                \*          and not removed by remove_track_from_playlist since
    likedOps,   \* history: tracks a liked-songs mutation has been applied to
    closed,     \* history: "closed" once close_session was called, "used" once a
                \*          call then used the session and returned, "open" again
                \*          once open_session is called
    race        \* two managers, each with a session of its own, inside
                \* get_or_create_playlist: where each is, the title it was
                \* called with, what its lookup found and what it returned

vars == <<store, view, session, added, likedOps, closed, race>>

----------------------------------------------------------------------------
\* Python and storage-level helpers

\* `if s:` / `if not s:` on an Optional[str]
Truthy(s) == s # NoneStr /\ s # ""

\* Query.first() on SQLite: rows come in rowid order, None when there is none.
First(S) == IF S = {} THEN None ELSE CHOOSE x \in S : \A y \in S : x <= y

\* The id SQLite gives an inserted row of an INTEGER PRIMARY KEY table.
NextId(S) == IF S = {} THEN 1 ELSE (CHOOSE x \in S : \A y \in S : y <= x) + 1

\* playlist_track has no key: it is a bag of <<playlist_id, track_id>> rows.
Copies(pt, row) == IF row \in DOMAIN pt THEN pt[row] ELSE 0

AppendRow(pt, row) ==
    IF row \in DOMAIN pt THEN [pt EXCEPT ![row] = @ + 1] ELSE pt @@ (row :> 1)

RemoveRow(pt, row) ==
    IF Copies(pt, row) > 1 THEN [pt EXCEPT ![row] = @ - 1]
    ELSE [r \in DOMAIN pt \ {row} |-> pt[r]]

EmptyStore ==
    [playlist |-> <<>>, track |-> <<>>, stream |-> <<>>, playlist_track |-> <<>>]

----------------------------------------------------------------------------
\* Entity model

\* Track.playlists: the playlists the association table links the track to.
TrackPlaylists(st, track) ==
    {p \in DOMAIN st.playlist : Copies(st.playlist_track, <<p, track>>) > 0}

\* Playlist.tracks, one entry per association row.
PlaylistTracks(st, playlist) ==
    {t \in DOMAIN st.track : Copies(st.playlist_track, <<playlist, t>>) > 0}

RECURSIVE SumDurations(_, _, _)
SumDurations(st, playlist, ts) ==
    IF ts = {} THEN 0
    ELSE LET t == CHOOSE x \in ts : TRUE
         IN  Copies(st.playlist_track, <<playlist, t>>) * st.track[t].duration
             + SumDurations(st, playlist, ts \ {t})

RECURSIVE SumCopies(_, _, _)
SumCopies(st, playlist, ts) ==
    IF ts = {} THEN 0
    ELSE LET t == CHOOSE x \in ts : TRUE
         IN  Copies(st.playlist_track, <<playlist, t>>)
             + SumCopies(st, playlist, ts \ {t})

\* Playlist.get_length
get_length(st, playlist) == SumCopies(st, playlist, PlaylistTracks(st, playlist))

RECURSIVE SumInts(_)
SumInts(S) ==
    IF S = {} THEN 0 ELSE LET n == CHOOSE x \in S : TRUE IN n + SumInts(S \ {n})

\* get_total_duration summing set(...) instead of the list of durations
get_total_duration_of_set(st, playlist) ==
    SumInts({st.track[t].duration : t \in PlaylistTracks(st, playlist)})

\* Playlist.get_total_duration
get_total_duration(st, playlist) ==
    SumDurations(st, playlist, PlaylistTracks(st, playlist))

\* Playlist.__init__
NewPlaylist(title, description) ==
    [title |-> title,
     description |-> IF ~Truthy(description) THEN "" ELSE description,
     downloaded |-> FALSE]

\* Track.__init__ with no path: the track owns a new Stream.
NewTrack(title, d, cover_art_url, stream_id) ==
    [title |-> title, artist |-> d.artist, album |-> d.album,
     duration |-> d.duration, liked |-> FALSE, path |-> NoneStr,
     stream_id |-> stream_id, cover_art_url |-> cover_art_url]

\* Stream.__init__
NewStream(url) == [url |-> url]

----------------------------------------------------------------------------
\* What a manager method leaves behind
\*   store    the persisted store after the call
\*   view     the store as the session holds it after the call: the persisted
\*            one and the changes made through the session since its last
\*            commit (none when the method's last statement is the commit)
\*   status   "ok" when it returned, else the exception it raised
\*   ret      the entity (row id) or None it returned
\*   flag     the bool it returned (playlist_exists, track_is_liked)
\*   commits  how many times it called session.commit()
\*   db       whether it reached a statement that uses self.session

Ok(st, ret, commits) ==
    [store |-> st, view |-> st, status |-> "ok", ret |-> ret, flag |-> FALSE,
     commits |-> commits, db |-> TRUE]

OkBool(st, flag, commits) ==
    [store |-> st, view |-> st, status |-> "ok", ret |-> None, flag |-> flag,
     commits |-> commits, db |-> TRUE]

\* a return before the session is used: `if not playlist: return`
Return(st, ret) ==
    [store |-> st, view |-> st, status |-> "ok", ret |-> ret, flag |-> FALSE,
     commits |-> 0, db |-> FALSE]

\* an exception of the method's own Python code, raised before session use
Raise(st, error) ==
    [store |-> st, view |-> st, status |-> error, ret |-> None, flag |-> FALSE,
     commits |-> 0, db |-> FALSE]

\* r2 run after r1 in the same method
After(r1, r2) ==
    [r2 EXCEPT !.commits = r1.commits + r2.commits, !.db = r1.db \/ r2.db]

\* A session whose flush failed is inactive until it is rolled back or
\* replaced (what open_session tests with is_active): every use of it raises.
OnSession(s, st, r) ==
    IF r.db /\ ~s.active
    THEN [store |-> st, view |-> st, status |-> "InvalidRequestError", ret |-> None,
          flag |-> FALSE, commits |-> 0, db |-> TRUE]
    ELSE r

----------------------------------------------------------------------------
\* PlaylistManager

\* a failing commit that the manager catches, rolls back and tries again
CommitFails_retried(st) ==
    [store |-> st, view |-> st, status |-> "OperationalError", ret |-> None,
     flag |-> FALSE, commits |-> 2, db |-> TRUE, failed |-> 2, rollbacks |-> 1]

\* self.session.commit() raising (database locked, I/O error, constraint):
\* no method catches it, so it ends the call.  The flush's transaction is
\* rolled back by the session itself and nothing of this unit of work is
\* persisted: st is the store as the last successful commit left it.
\*   failed     how many calls of session.commit() raised
\*   rollbacks  how many times the manager called session.rollback()
CommitFails(st) ==
    [store |-> st, view |-> st, status |-> "OperationalError", ret |-> None,
     flag |-> FALSE, commits |-> 1, db |-> TRUE, failed |-> 1, rollbacks |-> 0]

\* How a method that would end as r from store st ends when the storage layer
\* fails in it: a method with one commit fails in that commit.
FailuresOf(st, r) == IF r.status = "ok" /\ r.commits = 1 THEN {CommitFails(st)} ELSE {}

\* The same for a method that runs r1 and, when r1 returned, a method that
\* ends in one of `later`.
FailuresAfter(st, r1, later) ==
    FailuresOf(st, r1) \cup (IF r1.status = "ok" THEN {After(r1, x) : x \in later} ELSE {})

\* get_track's value
TrackLookup(st, title, id) ==
    IF Truthy(title) THEN First({t \in DOMAIN st.track : st.track[t].title = title})
    ELSE IF id # None THEN First({t \in DOMAIN st.track : t = id})
    ELSE None

get_track(st, title, id) ==
    IF Truthy(title) \/ id # None THEN Ok(st, TrackLookup(st, title, id), 0)
    ELSE Return(st, None)

get_or_create_track(st, title, d) ==
    LET track == get_track(st, title, None).ret
    IN  IF track = None
        THEN LET cover == IF ~Truthy(d.cover_art_url) THEN "" ELSE d.cover_art_url
                 sid == NextId(DOMAIN st.stream)
                 tid == NextId(DOMAIN st.track)
             IN  Ok([st EXCEPT
                       !.stream = @ @@ (sid :> NewStream(d.stream_url)),
                       !.track = @ @@ (tid :> NewTrack(title, d, cover, sid))],
                    tid, 1)
        ELSE Ok(st, track, 0)

add_track_cover_art(st, track, cover_art_url) ==
    IF track = None THEN Return(st, None)
    ELSE Ok([st EXCEPT !.track[track].cover_art_url = cover_art_url], None, 1)

\* get_playlist's value
PlaylistLookup(st, title) ==
    First({p \in DOMAIN st.playlist : st.playlist[p].title = title})

get_playlist(st, title) == Ok(st, PlaylistLookup(st, title), 0)

\* get_or_create_playlist without its `if playlist: return playlist`
get_or_create_playlist_always_inserts(st, title) ==
    LET pid == NextId(DOMAIN st.playlist)
    IN  Ok([st EXCEPT !.playlist = @ @@ (pid :> NewPlaylist(title, NoneStr))], pid, 1)

get_or_create_playlist(st, title) ==
    LET playlist == get_playlist(st, title).ret
    IN  IF playlist # None THEN Ok(st, playlist, 0)
        ELSE LET pid == NextId(DOMAIN st.playlist)
             IN  Ok([st EXCEPT !.playlist = @ @@ (pid :> NewPlaylist(title, NoneStr))],
                    pid, 1)

\* playlist_exists written with get_or_create_playlist, as track_is_liked is
playlist_exists_creates(st, title) ==
    LET r1 == get_or_create_playlist(st, title)
    IN  After(r1, OkBool(r1.store, r1.ret # None, 0))

playlist_exists(st, title) == OkBool(st, get_playlist(st, title).ret # None, 0)

\* rename_playlist without its `if not playlist: return`
rename_playlist_unguarded(st, playlist, new_title) ==
    IF playlist = None THEN Raise(st, "AttributeError")
    ELSE Ok([st EXCEPT !.playlist[playlist].title = new_title], None, 1)

rename_playlist(st, playlist, new_title) ==
    IF playlist = None THEN Return(st, None)
    ELSE Ok([st EXCEPT !.playlist[playlist].title = new_title], None, 1)

\* edit_playlist_description without its session.commit()
edit_playlist_description_uncommitted(st, playlist, new_description) ==
    IF playlist = None THEN Return(st, None)
    ELSE [Ok(st, None, 0) EXCEPT
            !.view = [st EXCEPT !.playlist[playlist].description = new_description]]

edit_playlist_description(st, playlist, new_description) ==
    IF playlist = None THEN Return(st, None)
    ELSE Ok([st EXCEPT !.playlist[playlist].description = new_description], None, 1)

\* delete_playlist that leaves the playlist's rows in playlist_track
delete_playlist_keeps_rows(st, playlist) ==
    IF playlist = None THEN Return(st, None)
    ELSE Ok([st EXCEPT !.playlist = [p \in DOMAIN @ \ {playlist} |-> @[p]]], None, 1)

\* session.delete on a Playlist: its row goes, and with it the rows of the
\* secondary table playlist_track that name it; no Track is touched.
delete_playlist(st, playlist) ==
    IF playlist = None THEN Return(st, None)
    ELSE Ok([st EXCEPT
               !.playlist = [p \in DOMAIN @ \ {playlist} |-> @[p]],
               !.playlist_track = [r \in {x \in DOMAIN @ : x[1] # playlist} |-> @[r]]],
            None, 1)

\* add_track_to_playlist that assigns track.playlists = [playlist]
add_track_to_playlist_replaces(st, track, playlist) ==
    IF track = None THEN Raise(st, "AttributeError")
    ELSE IF playlist \in TrackPlaylists(st, track) THEN Ok(st, None, 0)
    ELSE Ok([st EXCEPT !.playlist_track =
                [r \in {x \in DOMAIN @ : x[2] # track} |-> @[r]] @@ (<<playlist, track>> :> 1)],
            None, 1)

\* add_track_to_playlist without its `if playlist in playlists: return`
add_track_to_playlist_unchecked(st, track, playlist) ==
    IF track = None THEN Raise(st, "AttributeError")
    ELSE Ok([st EXCEPT !.playlist_track = AppendRow(@, <<playlist, track>>)], None, 1)

add_track_to_playlist(st, track, playlist) ==
    IF track = None THEN Raise(st, "AttributeError")
    ELSE IF playlist \in TrackPlaylists(st, track) THEN Ok(st, None, 0)
    ELSE Ok([st EXCEPT !.playlist_track = AppendRow(@, <<playlist, track>>)], None, 1)

create_and_add_track_to_playlist(st, title, d, playlist) ==
    LET r1 == get_or_create_track(st, title, d)
        r2 == add_track_to_playlist(r1.store, r1.ret, playlist)
    IN  After(r1, [r2 EXCEPT !.ret = r1.ret])

\* add_track_to_liked_songs that leaves out the title and gets the default
\* playlist
add_track_to_liked_songs_default_title(st, track) ==
    LET r1 == get_or_create_playlist(st, DefaultTitle)
    IN  After(r1, add_track_to_playlist(r1.store, track, r1.ret))

add_track_to_liked_songs(st, track) ==
    LET r1 == get_or_create_playlist(st, LikedSongs)
    IN  After(r1, add_track_to_playlist(r1.store, track, r1.ret))

create_and_add_track_to_liked_songs(st, title, d) ==
    LET r1 == get_or_create_playlist(st, LikedSongs)
    IN  After(r1, create_and_add_track_to_playlist(r1.store, title, d, r1.ret))

\* remove_track_from_playlist that empties track.playlists when the playlist
\* is not in it
remove_track_from_playlist_clears(st, track, playlist) ==
    IF track = None THEN Raise(st, "AttributeError")
    ELSE IF playlist \in TrackPlaylists(st, track)
    THEN Ok([st EXCEPT !.playlist_track = RemoveRow(@, <<playlist, track>>)], None, 1)
    ELSE Ok([st EXCEPT !.playlist_track =
                         [r \in {x \in DOMAIN @ : x[2] # track} |-> @[r]]], None, 1)

remove_track_from_playlist(st, track, playlist) ==
    IF track = None THEN Raise(st, "AttributeError")
    ELSE IF playlist \in TrackPlaylists(st, track)
    THEN Ok([st EXCEPT !.playlist_track = RemoveRow(@, <<playlist, track>>)], None, 1)
    ELSE Ok(st, None, 0)

\* remove_track_from_liked_songs looking the playlist up with get_playlist
remove_track_from_liked_songs_no_create(st, track) ==
    LET r1 == get_playlist(st, LikedSongs)
    IN  After(r1, remove_track_from_playlist(r1.store, track, r1.ret))

remove_track_from_liked_songs(st, track) ==
    LET r1 == get_or_create_playlist(st, LikedSongs)
    IN  After(r1, remove_track_from_playlist(r1.store, track, r1.ret))

\* The left operand of `in` is evaluated first: the playlist is looked up or
\* created before track.playlists is read.
track_is_liked(st, track) ==
    LET r1 == get_or_create_playlist(st, LikedSongs)
    IN  IF track = None THEN After(r1, Raise(r1.store, "AttributeError"))
        ELSE OkBool(r1.store, r1.ret \in TrackPlaylists(r1.store, track), r1.commits)

\* open_session that never keeps the session it has
open_session_always_new(s) == [id |-> s.id + 1, active |-> TRUE]

\* open_session: keeps a session that is there and active, else a new one.
open_session(s) ==
    IF s.id # None /\ s.active THEN s ELSE [id |-> s.id + 1, active |-> TRUE]

\* a close() after which the session refuses every use
close_session_invalidates(s) == [s EXCEPT !.active = FALSE]

\* Session.close() ends the transaction and empties the identity map; the
\* Session object stays usable and is_active stays true.
close_session(s) == [s EXCEPT !.active = TRUE]

----------------------------------------------------------------------------
\* The state machine

\* Base.metadata.create_all(engine): creates the tables that are missing and
\* inserts no row.
create_all(st) == st

\* The module-level playlist_manager and the PlaylistManager() that test()
\* constructs: two managers on one engine.
Managers == {1, 2}

\* A manager that is not inside get_or_create_playlist.
Idle == [pc |-> "idle", title |-> NoneStr, found |-> None, ret |-> None]

WithinBounds(st) ==
    /\ \A p \in DOMAIN st.playlist : p <= MaxPlaylists
    /\ \A t \in DOMAIN st.track : t <= MaxTracks

\* PlaylistManager.__init__ on an empty store
Init ==
    /\ store = create_all(EmptyStore)
    /\ view = store
    /\ session = open_session([id |-> None, active |-> FALSE])
    /\ added = {}
    /\ likedOps = {}
    /\ closed = "open"
    /\ race = [m \in Managers |-> Idle]

\* A call of a method that would end as r on a usable session.  When it
\* returns, `adds` and `removes` are the pairings its add_track_to_playlist
\* and remove_track_from_playlist calls were made for, `liked` the tracks a
\* liked-songs mutation was applied to.
Invoke(r, adds, removes, liked) ==
    LET out == OnSession(session, store, r)
        ok == out.status = "ok"
    IN  /\ WithinBounds(out.store)
        /\ store' = out.store
        /\ view' = out.view
        /\ added' = IF ok
                    THEN {x \in (added \ removes) \cup adds :
                            x[1] \in DOMAIN out.store.playlist}
                    ELSE added
        /\ likedOps' = IF ok THEN likedOps \cup liked ELSE likedOps
        /\ closed' = IF closed = "closed" /\ ok /\ out.db THEN "used" ELSE closed
        /\ UNCHANGED <<session, race>>

Tracks == DOMAIN store.track
Playlists == DOMAIN store.playlist

Call_get_track(title, id) ==
    Invoke(get_track(store, title, id), {}, {}, {})

Call_get_or_create_track(title, d) ==
    Invoke(get_or_create_track(store, title, d), {}, {}, {})

Call_add_track_cover_art(track, cover_art_url) ==
    Invoke(add_track_cover_art(store, track, cover_art_url), {}, {}, {})

Call_get_playlist(title) ==
    Invoke(get_playlist(store, title), {}, {}, {})

Call_get_or_create_playlist(title) ==
    Invoke(get_or_create_playlist(store, title), {}, {}, {})

Call_playlist_exists(title) ==
    Invoke(playlist_exists(store, title), {}, {}, {})

Call_rename_playlist(playlist, new_title) ==
    Invoke(rename_playlist(store, playlist, new_title), {}, {}, {})

Call_edit_playlist_description(playlist, new_description) ==
    Invoke(edit_playlist_description(store, playlist, new_description), {}, {}, {})

Call_delete_playlist(playlist) ==
    Invoke(delete_playlist(store, playlist), {}, {}, {})

Call_add_track_to_playlist(track, playlist) ==
    LET r == add_track_to_playlist(store, track, playlist)
    IN  Invoke(r, {<<playlist, track>>}, {}, {})

Call_create_and_add_track_to_playlist(title, d, playlist) ==
    LET r == create_and_add_track_to_playlist(store, title, d, playlist)
    IN  Invoke(r, {<<playlist, r.ret>>}, {}, {})

Call_add_track_to_liked_songs(track) ==
    LET r == add_track_to_liked_songs(store, track)
    IN  Invoke(r, {<<PlaylistLookup(r.store, LikedSongs), track>>}, {}, {track})

Call_create_and_add_track_to_liked_songs(title, d) ==
    LET r == create_and_add_track_to_liked_songs(store, title, d)
    IN  Invoke(r, {<<PlaylistLookup(r.store, LikedSongs), r.ret>>}, {}, {r.ret})

Call_remove_track_from_playlist(track, playlist) ==
    LET r == remove_track_from_playlist(store, track, playlist)
    IN  Invoke(r, {}, {<<playlist, track>>}, {})

Call_remove_track_from_liked_songs(track) ==
    LET r == remove_track_from_liked_songs(store, track)
    IN  Invoke(r, {}, {<<PlaylistLookup(r.store, LikedSongs), track>>}, {track})

Call_track_is_liked(track) ==
    Invoke(track_is_liked(store, track), {}, {}, {})

Call_open_session ==
    /\ session' = open_session(session)
    /\ view' = IF session' = session THEN view ELSE store
    /\ closed' = "open"
    /\ UNCHANGED <<store, added, likedOps, race>>

\* session.commit() with nothing pending
Call_commit_session ==
    Invoke(Ok(store, None, 1), {}, {}, {})

Call_close_session ==
    /\ session' = close_session(session)
    /\ view' = store
    /\ closed' = "closed"
    /\ UNCHANGED <<store, added, likedOps, race>>

Next ==
    \/ \E title \in TrackTitles \cup {NoneStr}, id \in Tracks \cup {None} :
          Call_get_track(title, id)
    \/ \E title \in TrackTitles, d \in TrackDetails :
          Call_get_or_create_track(title, d)
    \/ \E track \in Tracks \cup {None}, cover_art_url \in CoverArtUrls :
          Call_add_track_cover_art(track, cover_art_url)
    \/ \E title \in PlaylistTitles : Call_get_playlist(title)
    \/ \E title \in PlaylistTitles : Call_get_or_create_playlist(title)
    \/ \E title \in PlaylistTitles : Call_playlist_exists(title)
    \/ \E playlist \in Playlists \cup {None}, new_title \in PlaylistTitles :
          Call_rename_playlist(playlist, new_title)
    \/ \E playlist \in Playlists \cup {None}, new_description \in Descriptions :
          Call_edit_playlist_description(playlist, new_description)
    \/ \E playlist \in Playlists \cup {None} : Call_delete_playlist(playlist)
    \/ \E track \in Tracks \cup {None}, playlist \in Playlists :
          Call_add_track_to_playlist(track, playlist)
    \/ \E title \in TrackTitles, d \in TrackDetails, playlist \in Playlists :
          Call_create_and_add_track_to_playlist(title, d, playlist)
    \/ \E track \in Tracks \cup {None} : Call_add_track_to_liked_songs(track)
    \/ \E title \in TrackTitles, d \in TrackDetails :
          Call_create_and_add_track_to_liked_songs(title, d)
    \/ \E track \in Tracks \cup {None}, playlist \in Playlists \cup {None} :
          Call_remove_track_from_playlist(track, playlist)
    \/ \E track \in Tracks \cup {None} : Call_remove_track_from_liked_songs(track)
    \/ \E track \in Tracks \cup {None} : Call_track_is_liked(track)
    \/ Call_open_session
    \/ Call_commit_session
    \/ Call_close_session

Spec == Init /\ [][Next]_vars

----------------------------------------------------------------------------
\* The storage layer failing in a commit

create_and_add_track_to_playlist_failures(st, title, d, playlist) ==
    LET r1 == get_or_create_track(st, title, d)
    IN  FailuresAfter(st, r1,
            FailuresOf(r1.store, add_track_to_playlist(r1.store, r1.ret, playlist)))

add_track_to_liked_songs_failures(st, track) ==
    LET r1 == get_or_create_playlist(st, LikedSongs)
    IN  FailuresAfter(st, r1,
            FailuresOf(r1.store, add_track_to_playlist(r1.store, track, r1.ret)))

create_and_add_track_to_liked_songs_failures(st, title, d) ==
    LET r1 == get_or_create_playlist(st, LikedSongs)
    IN  FailuresAfter(st, r1,
            create_and_add_track_to_playlist_failures(r1.store, title, d, r1.ret))

remove_track_from_liked_songs_failures(st, track) ==
    LET r1 == get_or_create_playlist(st, LikedSongs)
    IN  FailuresAfter(st, r1,
            FailuresOf(r1.store, remove_track_from_playlist(r1.store, track, r1.ret)))

\* Every way a call on store st, made with these track titles and details, can
\* end in a failed commit.
CommitFailuresWith(st, titles, details) ==
    LET tracks == DOMAIN st.track
        playlists == DOMAIN st.playlist
    IN  UNION (
          {FailuresOf(st, get_or_create_track(st, title, d)) :
              title \in titles, d \in details}
          \cup {FailuresOf(st, add_track_cover_art(st, t, u)) :
              t \in tracks, u \in CoverArtUrls}
          \cup {FailuresOf(st, get_or_create_playlist(st, title)) : title \in PlaylistTitles}
          \cup {FailuresOf(st, rename_playlist(st, p, x)) :
              p \in playlists, x \in PlaylistTitles}
          \cup {FailuresOf(st, edit_playlist_description(st, p, x)) :
              p \in playlists, x \in Descriptions}
          \cup {FailuresOf(st, delete_playlist(st, p)) : p \in playlists}
          \cup {FailuresOf(st, add_track_to_playlist(st, t, p)) :
              t \in tracks, p \in playlists}
          \cup {FailuresOf(st, remove_track_from_playlist(st, t, p)) :
              t \in tracks, p \in playlists}
          \cup {create_and_add_track_to_playlist_failures(st, title, d, p) :
              title \in titles, d \in details, p \in playlists}
          \cup {add_track_to_liked_songs_failures(st, t) : t \in tracks}
          \cup {create_and_add_track_to_liked_songs_failures(st, title, d) :
              title \in titles, d \in details}
          \cup {remove_track_from_liked_songs_failures(st, t) : t \in tracks}
          \cup {FailuresOf(st, track_is_liked(st, t)) : t \in tracks}
          \cup {FailuresOf(st, Ok(st, None, 1))} )

CommitFailures(st) == CommitFailuresWith(st, TrackTitles, TrackDetails)

\* The values calls are made with where the storage layer can fail.
TitlesF == {"Song A"}
DetailsF == {d \in TrackDetails : d.cover_art_url = NoneStr}

\* A call whose commit fails.  The exception leaves the session inactive:
\* the manager calls neither rollback() nor close() on it.
Call_with_failing_commit ==
    /\ session.active
    /\ session.id < MaxSessions
    /\ \E out \in CommitFailuresWith(store, TitlesF, DetailsF) :
          /\ WithinBounds(out.store)
          /\ store' = out.store
          /\ view' = out.view
    /\ session' = [session EXCEPT !.active = FALSE]
    /\ UNCHANGED <<added, likedOps, closed, race>>

\* Every operation of Next, and the failing commit.
NextF ==
    \/ \E title \in TitlesF \cup {NoneStr}, id \in Tracks \cup {None} :
          Call_get_track(title, id)
    \/ \E title \in TitlesF, d \in DetailsF : Call_get_or_create_track(title, d)
    \/ \E track \in Tracks, cover_art_url \in CoverArtUrls :
          Call_add_track_cover_art(track, cover_art_url)
    \/ \E title \in PlaylistTitles : Call_get_playlist(title)
    \/ \E title \in PlaylistTitles : Call_get_or_create_playlist(title)
    \/ \E title \in PlaylistTitles : Call_playlist_exists(title)
    \/ \E playlist \in Playlists, new_title \in PlaylistTitles :
          Call_rename_playlist(playlist, new_title)
    \/ \E playlist \in Playlists, new_description \in Descriptions :
          Call_edit_playlist_description(playlist, new_description)
    \/ \E playlist \in Playlists : Call_delete_playlist(playlist)
    \/ \E track \in Tracks, playlist \in Playlists :
          Call_add_track_to_playlist(track, playlist)
    \/ \E title \in TitlesF, d \in DetailsF, playlist \in Playlists :
          Call_create_and_add_track_to_playlist(title, d, playlist)
    \/ \E track \in Tracks : Call_add_track_to_liked_songs(track)
    \/ \E title \in TitlesF, d \in DetailsF :
          Call_create_and_add_track_to_liked_songs(title, d)
    \/ \E track \in Tracks, playlist \in Playlists :
          Call_remove_track_from_playlist(track, playlist)
    \/ \E track \in Tracks : Call_remove_track_from_liked_songs(track)
    \/ \E track \in Tracks : Call_track_is_liked(track)
    \/ Call_open_session
    \/ Call_commit_session
    \/ Call_close_session
    \/ Call_with_failing_commit

\* The manager over a storage layer that can fail.
SpecF == Init /\ [][NextF]_vars

----------------------------------------------------------------------------
\* Two managers in get_or_create_playlist at once

\* InsertPlaylist that looks the title up again in the statement that inserts
InsertPlaylist_if_absent(st, title) == get_or_create_playlist(st, title)

\* `playlist = Playlist(title); self.session.add(playlist);
\* self.session.commit()`: the table has no unique constraint on title, the
\* INSERT succeeds whatever rows there are.
InsertPlaylist(st, title) ==
    LET pid == NextId(DOMAIN st.playlist)
    IN  Ok([st EXCEPT !.playlist = @ @@ (pid :> NewPlaylist(title, NoneStr))], pid, 1)

\* get_or_create_playlist from its `if playlist:` on, `found` being what its
\* get_playlist(title) returned.
get_or_create_playlist_after_lookup(st, title, found) ==
    IF found # None THEN Ok(st, found, 0) ELSE InsertPlaylist(st, title)

\* Manager m enters get_or_create_playlist(title) and runs its lookup.
Race_lookup(m, title) ==
    /\ race[m].pc = "idle"
    /\ race' = [race EXCEPT ![m] = [pc |-> "looked", title |-> title,
                                    found |-> get_playlist(store, title).ret,
                                    ret |-> None]]
    /\ UNCHANGED <<store, view, session, added, likedOps, closed>>

\* Manager m acts on what its lookup found: returns the playlist, or inserts
\* one and commits.
Race_insert(m) ==
    /\ race[m].pc = "looked"
    /\ LET r == get_or_create_playlist_after_lookup(store, race[m].title, race[m].found)
       IN  /\ WithinBounds(r.store)
           /\ store' = r.store
           /\ view' = r.view
           /\ race' = [race EXCEPT ![m].pc = "returned", ![m].ret = r.ret]
    /\ UNCHANGED <<session, added, likedOps, closed>>

\* The caller of manager m goes on.
Race_return(m) ==
    /\ race[m].pc = "returned"
    /\ race' = [race EXCEPT ![m] = Idle]
    /\ UNCHANGED <<store, view, session, added, likedOps, closed>>

\* A manager deletes a playlist while it is not inside get_or_create_playlist.
Race_delete(m, playlist) ==
    /\ race[m].pc = "idle"
    /\ LET r == delete_playlist(store, playlist)
       IN  store' = r.store /\ view' = r.view
    /\ UNCHANGED <<session, added, likedOps, closed, race>>

NextR ==
    \/ \E m \in Managers, title \in PlaylistTitles : Race_lookup(m, title)
    \/ \E m \in Managers : Race_insert(m)
    \/ \E m \in Managers : Race_return(m)
    \/ \E m \in Managers, playlist \in Playlists : Race_delete(m, playlist)

\* Two managers with a session each over the shared store.
SpecR == Init /\ [][NextR]_vars

----------------------------------------------------------------------------
\* Claims

PlaylistsTitled(st, title) == {p \in DOMAIN st.playlist : st.playlist[p].title = title}

Member(st, track, playlist) == Copies(st.playlist_track, <<playlist, track>>) > 0

\* C1: from every reachable store and for every title, two calls of
\* get_or_create_playlist(title) in a row both return, return the same
\* playlist, and the second call leaves the store as the first left it: the
\* number of playlists with that title is the same after both.
C1_GetOrCreatePlaylistTwice ==
    \A title \in PlaylistTitles :
        LET r1 == get_or_create_playlist(store, title)
            r2 == get_or_create_playlist(r1.store, title)
        IN  /\ r1.status = "ok" /\ r2.status = "ok"
            /\ r1.ret \in PlaylistsTitled(r1.store, title)
            /\ r2.ret = r1.ret
            /\ Cardinality(PlaylistsTitled(r2.store, title))
                 = Cardinality(PlaylistsTitled(r1.store, title))
            /\ r2.store = r1.store

\* A store in which one title has its playlist (the calls find it) and the
\* other has none (the first call inserts it, the second finds it).
C1_Witness ==
    /\ PlaylistsTitled(store, LikedSongs) = {}
    /\ PlaylistsTitled(store, DefaultTitle) # {}
    /\ get_or_create_playlist(store, LikedSongs).commits = 1

\* C2: a (playlist, track) pairing is in playlist_track at most once in every
\* reachable state, and add_track_to_playlist(T, P) for a member T of P
\* returns with the store, and so P's track count, as it was; adding twice
\* in a row leaves what adding once leaves.
C2_AddIsIdempotent ==
    /\ \A row \in DOMAIN store.playlist_track : store.playlist_track[row] = 1
    /\ \A t \in Tracks, p \in Playlists :
          LET r1 == add_track_to_playlist(store, t, p)
              r2 == add_track_to_playlist(r1.store, t, p)
          IN  /\ Member(store, t, p) =>
                    /\ r1.status = "ok"
                    /\ r1.store = store
                    /\ get_length(r1.store, p) = get_length(store, p)
              /\ Member(r1.store, t, p)
              /\ r2.store = r1.store
              /\ get_length(r2.store, p) = get_length(r1.store, p)

\* A track that is a member of two playlists, one of them with two members.
C2_Witness ==
    \E t \in Tracks, p \in Playlists, q \in Playlists :
        /\ p # q /\ Member(store, t, p) /\ Member(store, t, q)
        /\ get_length(store, p) = 2

\* C3: remove_track_from_playlist(T, P) for a track T that is not a member
\* of P returns with every table of the store as it was.
C3_RemoveAbsentKeepsStore ==
    \A t \in Tracks, p \in Playlists :
        ~Member(store, t, p) => remove_track_from_playlist(store, t, p).store = store

\* A track that is not a member of one playlist and is a member of another.
C3_Witness ==
    \E t \in Tracks, p \in Playlists, q \in Playlists :
        ~Member(store, t, p) /\ Member(store, t, q)

\* track_is_liked's value
IsLiked(st, t) == track_is_liked(st, t).flag

\* C4 (as stated): track_is_liked(T) is false as long as no liked-songs
\* operation has been applied to T; right after add_track_to_liked_songs(T)
\* it is true; right after a following remove_track_from_liked_songs(T) it
\* is false again.
C4_LikedOnlyByLikedSongsCalls ==
    \A t \in Tracks :
        LET a == add_track_to_liked_songs(store, t)
            rm == remove_track_from_liked_songs(a.store, t)
        IN  /\ t \notin likedOps => ~IsLiked(store, t)
            /\ a.status = "ok" /\ IsLiked(a.store, t)
            /\ rm.status = "ok" /\ ~IsLiked(rm.store, t)

\* C4 (amended): track_is_liked(T) is false as long as T is a member of no
\* playlist titled "Liked Songs" (add_track_to_playlist and rename_playlist
\* can make it one, not only the liked-songs operations); right after
\* add_track_to_liked_songs(T) it is true; right after a following
\* remove_track_from_liked_songs(T) it is false again.
C4_LikedFollowsMembership ==
    \A t \in Tracks :
        LET a == add_track_to_liked_songs(store, t)
            rm == remove_track_from_liked_songs(a.store, t)
        IN  /\ (\A p \in PlaylistsTitled(store, LikedSongs) : ~Member(store, t, p))
                  => track_is_liked(store, t).status = "ok" /\ ~IsLiked(store, t)
            /\ a.status = "ok" /\ IsLiked(a.store, t)
            /\ rm.status = "ok" /\ ~IsLiked(rm.store, t)

\* A track that add_track_to_liked_songs was applied to and that is liked,
\* beside a track that is in another playlist only.
C4_Witness ==
    \E t \in likedOps, u \in Tracks :
        /\ IsLiked(store, t)
        /\ u \notin likedOps /\ ~IsLiked(store, u) /\ TrackPlaylists(store, u) # {}

RECURSIVE SumOfDurations(_, _)
SumOfDurations(st, ts) ==
    IF ts = {} THEN 0
    ELSE LET t == CHOOSE x \in ts : TRUE
         IN  st.track[t].duration + SumOfDurations(st, ts \ {t})

AddedTo(playlist) == {t \in Tracks : <<playlist, t>> \in added}

\* C5: in every reachable state, get_total_duration() of every playlist is
\* the sum of the durations of the tracks that add_track_to_playlist was
\* called for with that playlist and remove_track_from_playlist has not been
\* called for since, and it is zero for a playlist without members.
C5_TotalDurationIsSumOfAdded ==
    \A p \in Playlists :
        /\ get_total_duration(store, p) = SumOfDurations(store, AddedTo(p))
        /\ PlaylistTracks(store, p) = {} => get_total_duration(store, p) = 0

\* A playlist whose two members last 180 and 245 and that reports 425, beside
\* an empty playlist.
C5_Witness ==
    \E p \in Playlists, q \in Playlists :
        /\ {store.track[t].duration : t \in PlaylistTracks(store, p)} = {180, 245}
        /\ get_total_duration(store, p) = 425
        /\ PlaylistTracks(store, q) = {} /\ get_total_duration(store, q) = 0

\* a call that returned and left no trace
NoOp(r) == r.status = "ok" /\ r.store = store /\ r.commits = 0

\* C6: in every reachable state rename_playlist, edit_playlist_description,
\* delete_playlist and add_track_cover_art called with None as the entity
\* return without an error, leave the store as it is and commit nothing.
C6_NoneEntityIsNoOp ==
    /\ \A new_title \in PlaylistTitles :
          NoOp(OnSession(session, store, rename_playlist(store, None, new_title)))
    /\ \A new_description \in Descriptions :
          NoOp(OnSession(session, store,
                         edit_playlist_description(store, None, new_description)))
    /\ NoOp(OnSession(session, store, delete_playlist(store, None)))
    /\ \A cover_art_url \in CoverArtUrls :
          NoOp(OnSession(session, store, add_track_cover_art(store, None, cover_art_url)))

\* A store with playlists, tracks and a membership that such a call could
\* have touched.
C6_Witness ==
    /\ Cardinality(Playlists) = 2 /\ Cardinality(Tracks) = 2
    /\ \E t \in Tracks, p \in Playlists :
          /\ Member(store, t, p)
          /\ store.track[t].cover_art_url = ""
          /\ store.playlist[p].description = ""

\* C7: when a track with the given title exists, get_or_create_track(title,
\* ...) with any other details returns a track of that title that was there
\* before, and leaves every table (no field changed, no track or stream row
\* added) as it was.
C7_ExistingTrackIsReturnedUnchanged ==
    \A title \in TrackTitles, d \in TrackDetails :
        (\E t \in Tracks : store.track[t].title = title) =>
            LET r == get_or_create_track(store, title, d)
            IN  /\ r.status = "ok"
                /\ r.ret \in Tracks
                /\ store.track[r.ret].title = title
                /\ r.store = store

HandleFreeCalls(st) ==
    {get_track(st, title, id) :
        title \in TrackTitles \cup {NoneStr}, id \in DOMAIN st.track \cup {None}}
    \cup {get_or_create_track(st, title, d) : title \in TrackTitles, d \in TrackDetails}
    \cup {get_playlist(st, title) : title \in PlaylistTitles}
    \cup {get_or_create_playlist(st, title) : title \in PlaylistTitles}
    \cup {playlist_exists(st, title) : title \in PlaylistTitles}

\* What the methods that take a track or a playlist would end as on st.
EntityCalls(st) ==
    {add_track_cover_art(st, t, u) : t \in DOMAIN st.track, u \in CoverArtUrls}
    \cup {rename_playlist(st, p, x) : p \in DOMAIN st.playlist, x \in PlaylistTitles}
    \cup {edit_playlist_description(st, p, x) :
            p \in DOMAIN st.playlist, x \in Descriptions}
    \cup {delete_playlist(st, p) : p \in DOMAIN st.playlist}
    \cup {add_track_to_playlist(st, t, p) : t \in DOMAIN st.track, p \in DOMAIN st.playlist}
    \cup {remove_track_from_playlist(st, t, p) :
            t \in DOMAIN st.track, p \in DOMAIN st.playlist}
    \cup {add_track_to_liked_songs(st, t) : t \in DOMAIN st.track}
    \cup {remove_track_from_liked_songs(st, t) : t \in DOMAIN st.track}
    \cup {track_is_liked(st, t) : t \in DOMAIN st.track}

\* C9 (as stated): once close_session has been called and open_session has
\* not been called since, no call has used the session and returned, and
\* every query or mutating call that uses the session would end with an
\* error.
C9_ClosedSessionRejectsCalls ==
    /\ closed # "used"
    /\ closed = "closed" =>
          \A r \in HandleFreeCalls(store) \cup EntityCalls(store) :
              r.db => OnSession(session, store, r).status # "ok"

\* C9 (amended): once close_session has been called and open_session has
\* not been called since, the manager still holds the same session, it is
\* active (open_session would keep it) and it is used again without a word:
\* get_track, get_or_create_track, get_playlist, get_or_create_playlist and
\* playlist_exists end as they end on a session that was never closed, none
\* of them with an error.
C9_ClosedSessionIsUsedAgain ==
    closed # "open" =>
        /\ session.active
        /\ open_session(session) = session
        /\ \A r \in HandleFreeCalls(store) :
              OnSession(session, store, r) = r /\ r.status = "ok"

\* A call has used the closed session and returned, and rows are stored.
C9_Witness ==
    closed = "used" /\ Playlists # {} /\ Tracks # {}

\* one new playlist row titled "Liked Songs", without members, and nothing else
OnlyAddsLikedSongs(st2) ==
    /\ st2.track = store.track
    /\ st2.stream = store.stream
    /\ st2.playlist_track = store.playlist_track
    /\ \A p \in Playlists : p \in DOMAIN st2.playlist /\ st2.playlist[p] = store.playlist[p]
    /\ \E q \in DOMAIN st2.playlist :
          /\ DOMAIN st2.playlist = Playlists \cup {q}
          /\ q \notin Playlists
          /\ st2.playlist[q].title = LikedSongs
          /\ PlaylistTracks(st2, q) = {}

QueriesKeepStore ==
    /\ \A title \in TrackTitles \cup {NoneStr}, id \in Tracks \cup {None} :
          NoOp(get_track(store, title, id))
    /\ \A title \in PlaylistTitles :
          NoOp(get_playlist(store, title)) /\ NoOp(playlist_exists(store, title))

\* C10 (as stated): in every reachable state get_track, get_playlist,
\* playlist_exists and track_is_liked return with the store as it was and
\* without a commit.
C10_QueriesNeverWrite ==
    /\ QueriesKeepStore
    /\ \A t \in Tracks : NoOp(track_is_liked(store, t))

\* C10 (amended): in every reachable state get_track, get_playlist and
\* playlist_exists return with the store as it was and without a commit, and
\* so does track_is_liked when a playlist titled "Liked Songs" exists; when
\* none exists, track_is_liked returns false after it has inserted one such
\* playlist, without members, in one commit, and has changed nothing else.
C10_OnlyTrackIsLikedWrites ==
    /\ QueriesKeepStore
    /\ \A t \in Tracks :
          LET r == track_is_liked(store, t)
          IN  IF PlaylistsTitled(store, LikedSongs) # {} THEN NoOp(r)
              ELSE /\ r.status = "ok" /\ r.commits = 1 /\ ~r.flag
                   /\ OnlyAddsLikedSongs(r.store)

\* A store with a playlist and a track in it but no "Liked Songs" playlist:
\* track_is_liked inserts one.
C10_Witness ==
    /\ PlaylistsTitled(store, LikedSongs) = {}
    /\ \E t \in Tracks, p \in Playlists :
          /\ Member(store, t, p)
          /\ track_is_liked(store, t).commits = 1

\* C11: in every reachable state at most one playlist row has the title
\* "Liked Songs".
C11_LikedSongsIsSingleton ==
    Cardinality(PlaylistsTitled(store, LikedSongs)) <= 1

\* C12: constructing a manager over a store without a playlist titled "Liked
\* Songs" creates none (the store of a new manager over an empty database is
\* empty), and from every reachable store each of add_track_to_liked_songs,
\* create_and_add_track_to_liked_songs, remove_track_from_liked_songs and
\* track_is_liked, called with any argument, leaves a store in which a
\* playlist with that title exists.
C12_LikedSongsCreatedOnFirstReference ==
    /\ create_all(store) = store
    /\ PlaylistsTitled(create_all(EmptyStore), LikedSongs) = {}
    /\ \A track \in Tracks \cup {None} :
          /\ PlaylistsTitled(add_track_to_liked_songs(store, track).store, LikedSongs) # {}
          /\ PlaylistsTitled(remove_track_from_liked_songs(store, track).store, LikedSongs) # {}
          /\ PlaylistsTitled(track_is_liked(store, track).store, LikedSongs) # {}
    /\ \A title \in TrackTitles, d \in TrackDetails :
          PlaylistsTitled(create_and_add_track_to_liked_songs(store, title, d).store,
                          LikedSongs) # {}

\* No playlist titled "Liked Songs" yet, though playlists and tracks exist:
\* the first reference inserts one (its own commit, then the append's).
C12_Witness ==
    /\ PlaylistsTitled(store, LikedSongs) = {}
    /\ Playlists # {}
    /\ \E t \in Tracks : add_track_to_liked_songs(store, t).commits = 2

\* C13: in every reachable state, open_session on a manager whose session is
\* active leaves the session handle as it is; on a manager whose session is
\* inactive, and on one that holds no session, it installs another session,
\* which is active and on which every call ends as it does on the shared
\* store; a second open_session changes nothing more.
C13_OpenSessionIsIdempotent ==
    LET opened == open_session(session)
        first == open_session([id |-> None, active |-> FALSE])
    IN  /\ session.active => opened = session
        /\ ~session.active => opened.id \notin {None, session.id} /\ opened.active
        /\ first.id # None /\ first.active
        /\ open_session(opened) = opened
        /\ \A r \in HandleFreeCalls(store) \cup EntityCalls(store) :
              OnSession(opened, store, r) = r

\* The session is inactive after a failed commit, and rows are stored.
C13_Witness ==
    ~session.active /\ Playlists # {} /\ Tracks # {}

\* The reference C14 compares get_track with: a title that is supplied (not
\* None) selects the first track with that title, else an id that is supplied
\* selects the track with that id, else nothing.
GetTrackReference(st, title, id) ==
    IF title # NoneStr THEN First({t \in DOMAIN st.track : st.track[t].title = title})
    ELSE IF id # None /\ id \in DOMAIN st.track THEN id
    ELSE None

\* C14: in every reachable state and for every title (None included) and
\* every id (None and an id no track has included), get_track(title, id)
\* returns what the reference selects.
C14_GetTrackAgreesWithReference ==
    \A title \in TrackTitles \cup {NoneStr}, id \in 0..(MaxTracks + 1) :
        LET r == get_track(store, title, id)
        IN  r.status = "ok" /\ r.ret = GetTrackReference(store, title, id)

TracksTitled(st, title) == {t \in DOMAIN st.track : st.track[t].title = title}

\* C15: from every reachable store and for every title, the empty string
\* included, get_or_create_track inserts a track only if no track has that
\* title, and two calls in a row with that title return the same track and
\* leave exactly one track row with that title.
C15_GetOrCreateTrackTwice ==
    \A title \in TrackTitles, d1 \in TrackDetails, d2 \in TrackDetails :
        LET r1 == get_or_create_track(store, title, d1)
            r2 == get_or_create_track(r1.store, title, d2)
        IN  /\ r1.status = "ok" /\ r2.status = "ok"
            /\ r1.store # store => TracksTitled(store, title) = {}
            /\ r2.ret = r1.ret
            /\ Cardinality(TracksTitled(r2.store, title)) = 1

\* What the methods that create a track and add it would end as on st.
CreateAndAddCalls(st) ==
    {create_and_add_track_to_playlist(st, title, d, p) :
        title \in TrackTitles, d \in TrackDetails, p \in DOMAIN st.playlist}
    \cup {create_and_add_track_to_liked_songs(st, title, d) :
        title \in TrackTitles, d \in TrackDetails}

\* C16: at every operation boundary the persisted store equals the store as the
\* session holds it, and every call that returns normally after changing an
\* entity or the membership relation has committed: it leaves nothing
\* pending.
C16_NothingPendingAtOperationBoundary ==
    /\ view = store
    /\ \A r \in HandleFreeCalls(store) \cup EntityCalls(store) \cup CreateAndAddCalls(store) :
          (r.status = "ok" /\ r.view # store) => r.commits >= 1 /\ r.store = r.view

\* Playlists and tracks were created, a description was edited and a track
\* was added: several mutating calls have returned.
C16_Witness ==
    /\ view = store
    /\ \E p \in Playlists, t \in Tracks :
          Member(store, t, p) /\ store.playlist[p].description # ""

\* C17: in every reachable state, a call whose commit fails ends with the
\* commit's error and has called session.commit() for the failing commit
\* once and session.rollback() never; what it leaves persisted is what the
\* commits before the failing one persisted (nothing, when the method has one
\* commit), and nothing is pending.  Afterwards the session is left as the
\* failure left it: when the session is inactive every call that uses it
\* raises and changes nothing, until open_session or close_session.
C17_FailedCommitPropagatesOnce ==
    /\ \A out \in CommitFailures(store) :
          /\ out.status = "OperationalError"
          /\ out.failed = 1
          /\ out.rollbacks = 0
          /\ out.view = out.store
          /\ out.commits = 1 => out.store = store
    /\ ~session.active =>
          \A r \in HandleFreeCalls(store) \cup EntityCalls(store) \cup CreateAndAddCalls(store) :
              r.db => LET out == OnSession(session, store, r)
                      IN  out.status = "InvalidRequestError" /\ out.store = store

\* A commit has failed and left the session inactive, with a track stored that
\* is in no playlist (what a create-and-add call leaves behind when its second
\* commit fails).
C17_Witness ==
    /\ ~session.active
    /\ Playlists # {}
    /\ \E t \in Tracks : TrackPlaylists(store, t) = {}

\* C18: in every reachable state add_track_to_playlist, remove_track_from_playlist,
\* add_track_to_liked_songs and remove_track_from_liked_songs called with None
\* for the track return without an error and leave the membership relation
\* as it was.
C18_NoneTrackIsSilentNoOp ==
    LET silent(r) == r.status = "ok" /\ r.store.playlist_track = store.playlist_track
    IN  /\ \A p \in Playlists :
              /\ silent(add_track_to_playlist(store, None, p))
              /\ silent(remove_track_from_playlist(store, None, p))
        /\ silent(add_track_to_liked_songs(store, None))
        /\ silent(remove_track_from_liked_songs(store, None))

\* C19: with two managers over the shared store, whenever both have run the
\* lookup of get_or_create_playlist for the same title and both found nothing
\* (neither insert is committed yet), both go on to insert: the two calls
\* return different playlists and leave two playlist rows with that title.
C19_RacingGetOrCreateInsertsTwice ==
    ( /\ race[1].pc = "looked" /\ race[2].pc = "looked"
      /\ race[1].title = race[2].title
      /\ race[1].found = None /\ race[2].found = None ) =>
        LET title == race[1].title
            r1 == get_or_create_playlist_after_lookup(store, title, race[1].found)
            r2 == get_or_create_playlist_after_lookup(r1.store, title, race[2].found)
        IN  /\ r1.status = "ok" /\ r2.status = "ok"
            /\ r1.ret # r2.ret
            /\ {r1.ret, r2.ret} \subseteq PlaylistsTitled(r2.store, title)
            /\ Cardinality(PlaylistsTitled(r2.store, title))
                 = Cardinality(PlaylistsTitled(store, title)) + 2

\* Both managers have returned from get_or_create_playlist("Liked Songs"),
\* each after a lookup that found nothing, and two rows have the title.
C19_Witness ==
    /\ race[1].pc = "returned" /\ race[2].pc = "returned"
    /\ race[1].title = LikedSongs /\ race[2].title = LikedSongs
    /\ race[1].found = None /\ race[2].found = None
    /\ race[1].ret # race[2].ret
    /\ PlaylistsTitled(store, LikedSongs) = {race[1].ret, race[2].ret}

\* The calls other than those that un-like track t: every call on store st
\* but remove_track_from_liked_songs(t) and remove_track_from_playlist of t
\* from the playlist the liked-songs methods use, less rename_playlist and
\* delete_playlist of the playlists in `spared` (with the titles in `titles`).
CallsBesideUnlike(st, t, spared, titles) ==
    LET liked == PlaylistLookup(st, LikedSongs)
        tracks == DOMAIN st.track
        playlists == DOMAIN st.playlist
    IN  HandleFreeCalls(st) \cup CreateAndAddCalls(st)
        \cup {add_track_cover_art(st, u, c) : u \in tracks, c \in CoverArtUrls}
        \cup {edit_playlist_description(st, p, x) : p \in playlists, x \in Descriptions}
        \cup {add_track_to_playlist(st, u, p) : u \in tracks, p \in playlists}
        \cup {add_track_to_liked_songs(st, u) : u \in tracks}
        \cup {track_is_liked(st, u) : u \in tracks}
        \cup {remove_track_from_playlist(st, x[1], x[2]) :
                x \in (tracks \X playlists) \ {<<t, liked>>}}
        \cup {remove_track_from_liked_songs(st, u) : u \in tracks \ {t}}
        \cup {delete_playlist(st, p) : p \in playlists \ spared}
        \cup UNION {{rename_playlist(st, p, x) : x \in PlaylistTitles \ titles[p]} :
                      p \in playlists}

\* C20 (as stated): in every reachable state in which track_is_liked(T) is
\* true, as it is once add_track_to_liked_songs(T) has returned, every call
\* other than remove_track_from_liked_songs(T), rename_playlist and
\* delete_playlist of any playlist included, leaves it true.
C20_LikedUntilUnliked ==
    \A t \in Tracks :
        IsLiked(store, t) =>
            \A r \in CallsBesideUnlike(store, t, {}, [p \in Playlists |-> {}]) :
                r.status = "ok" /\ IsLiked(r.store, t)

\* C20 (amended): in every reachable state in which track_is_liked(T) is
\* true, every call leaves it true except remove_track_from_liked_songs(T)
\* (or remove_track_from_playlist of T from that playlist), delete_playlist of
\* the first playlist titled "Liked Songs", rename_playlist of that playlist
\* to another title, and rename_playlist of a playlist with a smaller id to
\* "Liked Songs"; renaming and deleting other playlists, editing
\* descriptions, adding to and removing from other playlists and the
\* get-or-create calls keep it.
C20_LikedWhileLikedSongsIsKept ==
    \A t \in Tracks :
        IsLiked(store, t) =>
            LET liked == PlaylistLookup(store, LikedSongs)
                kept == [p \in Playlists |->
                           IF p = liked THEN PlaylistTitles \ {LikedSongs}
                           ELSE IF p < liked THEN {LikedSongs}
                           ELSE {}]
            IN  \A r \in CallsBesideUnlike(store, t, {liked}, kept) :
                    r.status = "ok" /\ IsLiked(r.store, t)

\* A track that add_track_to_liked_songs was applied to is liked, and there
\* is a second playlist, with a smaller id, that can be renamed or deleted.
C20_Witness ==
    \E t \in likedOps :
        /\ IsLiked(store, t)
        /\ \E p \in Playlists : p < PlaylistLookup(store, LikedSongs)

=============================================================================
